---- MODULE Spec2Model ----
(***************************************************************************)
(* Model of the packet-path contract generator: the sk_buff model          *)
(* (internal/contract/skbuff.go), the function graph and the linear        *)
(* simulation over it (PacketPath.Simulate / SimulateIngress).             *)
(*                                                                         *)
(* Go slices are modelled as references into a heap of backing arrays, so  *)
(* that aliasing between the live buffer and its snapshots is something    *)
(* the model can exhibit.  Integers are the mathematical integers: every   *)
(* value handled here stays far from the 64-bit limits of Go's int.        *)
(***************************************************************************)
EXTENDS Integers, Sequences, FiniteSets, TLC

VARIABLES
    skb,        \* the live SKBuff: Head, Data, Tail, End and the Layers slice
    heap,       \* backing arrays of every []ProtocolHeader allocated so far
    ctor,       \* how the live buffer was constructed: [kind, totalSize, payloadSize]
    hist,       \* calls made on the live buffer by the driver, oldest first
    views,      \* value of the live buffer after construction and after each call
    path,       \* the PacketPath under simulation: Functions, Edges, EntryPoint
    graph,      \* FunctionGraph built by the running simulation
    steps,      \* steps accumulated by the running simulation
    currentID,  \* local currentID of the running simulation
    stepNum,    \* local stepNum of the running simulation
    visited,    \* local visited set of the running simulation
    pc,         \* position of the program
    results,    \* the simulations that have returned, oldest first
    stepIndex,  \* useSimulation: the stepIndex state
    isPlaying,  \* useSimulation: the isPlaying state
    totalSteps, \* useSimulation: length of the simulation it was given
    intervalArmed,  \* useSimulation: the interval of intervalRef.current is running
    effectPending,  \* useSimulation: a commit changed the effect's dependencies
    lastEvent,  \* useSimulation: the last handler or timer callback that ran
    fnLayers,   \* contract command: the Layer of every function of the export
    jsonData,   \* contract command: the JSON text of every such Layer
    decoded     \* contract command: the Layers json.Unmarshal stored

hookVars == <<stepIndex, isPlaying, totalSteps, intervalArmed, effectPending,
              lastEvent>>

layerVars == <<fnLayers, jsonData, decoded>>

otherVars == <<hookVars, layerVars>>

vars == <<skb, heap, ctor, hist, views, path, graph, steps, currentID,
          stepNum, visited, pc, results, otherVars>>

simVars == <<path, graph, steps, currentID, stepNum, visited, results>>

\* the playback hook is not mounted
NoEvent == [op |-> "", index |-> 0, from |-> 0]

HookIdle ==
    /\ stepIndex = 0
    /\ isPlaying = FALSE
    /\ totalSteps = 0
    /\ intervalArmed = FALSE
    /\ effectPending = FALSE
    /\ lastEvent = NoEvent

\* the contract command is not running
LayerIdle ==
    /\ fnLayers = <<>>
    /\ jsonData = <<>>
    /\ decoded = <<>>

-----------------------------------------------------------------------------
(* Header sizes, internal/contract/function.go *)

EthernetHeaderSize == 14

IPv4HeaderSize == 20

TCPHeaderSize == 20

-----------------------------------------------------------------------------
(* Bounds of the model *)

\* number of Push/Pull/Put calls the driver makes on one buffer
MaxOps == 3

\* totalSize arguments tried by the driver
BufSizes == {60, 2048}

\* payloadSize arguments tried by the driver
PayloadSizes == {-1, 1, 1000}

\* size arguments tried by the driver
OpSizes == {-1, EthernetHeaderSize, TCPHeaderSize, 64}

\* protocol arguments tried by the driver
Protocols == {"ethernet", "ip", "tcp"}

-----------------------------------------------------------------------------
(* Slices and the heap *)

\* the empty slice literal []ProtocolHeader{}
EmptySlice == [arr |-> 0, off |-> 0, len |-> 0]

\* the elements a slice denotes in heap h
LayersOf(h, sl) == [i \in 1..sl.len |-> h[sl.arr][sl.off + i]]

\* s.Layers[i].Offset += delta for every i, written through the backing array
AddToOffsets(h, sl, delta) ==
    IF sl.len = 0 THEN h
    ELSE [h EXCEPT ![sl.arr] =
            [j \in DOMAIN @ |->
                IF j > sl.off /\ j <= sl.off + sl.len
                THEN [@[j] EXCEPT !.Offset = @ + delta]
                ELSE @[j]]]

\* the value of an SKBuff as a reader sees it: the fields and the layer list
View(h, s) ==
    [Head |-> s.Head, Data |-> s.Data, Tail |-> s.Tail, End |-> s.End,
     Layers |-> LayersOf(h, s.Layers)]

-----------------------------------------------------------------------------
(* SKBuff *)

NewSKBuffNoPayload(h, totalSize, payloadSize) ==
    [skb |-> [Head |-> 0, Data |-> totalSize, Tail |-> totalSize,
              End |-> totalSize, Layers |-> EmptySlice],
     heap |-> h]

NewSKBuffWithPayload(h, totalSize, payloadSize) ==
    [skb |-> [Head |-> 0, Data |-> totalSize - payloadSize, Tail |-> totalSize,
              End |-> totalSize, Layers |-> EmptySlice],
     heap |-> h]

NewSKBuffForIngressHeadersOnly(h, totalSize, payloadSize) ==
    LET headerSize == EthernetHeaderSize + IPv4HeaderSize + TCPHeaderSize
        arr == << [Protocol |-> "ethernet", Offset |-> 0, Size |-> EthernetHeaderSize],
                  [Protocol |-> "ip", Offset |-> EthernetHeaderSize, Size |-> IPv4HeaderSize],
                  [Protocol |-> "tcp", Offset |-> EthernetHeaderSize + IPv4HeaderSize,
                   Size |-> TCPHeaderSize] >>
        h1 == Append(h, arr)
    IN  [skb |-> [Head |-> 0, Data |-> 0, Tail |-> headerSize, End |-> totalSize,
                  Layers |-> [arr |-> Len(h1), off |-> 0, len |-> 3]],
         heap |-> h1]

NewSKBuffForIngress(h, totalSize, payloadSize) ==
    LET headerSize == EthernetHeaderSize + IPv4HeaderSize + TCPHeaderSize
        totalPacketLen == headerSize + payloadSize
        arr == << [Protocol |-> "ethernet", Offset |-> 0, Size |-> EthernetHeaderSize],
                  [Protocol |-> "ip", Offset |-> EthernetHeaderSize, Size |-> IPv4HeaderSize],
                  [Protocol |-> "tcp", Offset |-> EthernetHeaderSize + IPv4HeaderSize,
                   Size |-> TCPHeaderSize] >>
        h1 == Append(h, arr)
    IN  [skb |-> [Head |-> 0, Data |-> 0, Tail |-> totalPacketLen, End |-> totalSize,
                  Layers |-> [arr |-> Len(h1), off |-> 0, len |-> 3]],
         heap |-> h1]

PushStoreFirst(h, s, protocol, size) ==
    LET newData == s.Data - size
        header == [Protocol |-> protocol, Offset |-> 0, Size |-> size]
        h1 == AddToOffsets(h, s.Layers, size)
        h2 == Append(h1, <<header>> \o LayersOf(h1, s.Layers))
    IN  IF newData < s.Head
        THEN [ok |-> FALSE, skb |-> [s EXCEPT !.Data = newData], heap |-> h]
        ELSE [ok |-> TRUE,
              skb |-> [s EXCEPT !.Data = newData,
                                !.Layers = [arr |-> Len(h2), off |-> 0,
                                            len |-> s.Layers.len + 1]],
              heap |-> h2]

PushNoShift(h, s, protocol, size) ==
    LET newData == s.Data - size
        header == [Protocol |-> protocol, Offset |-> 0, Size |-> size]
        h2 == Append(h, <<header>> \o LayersOf(h, s.Layers))
    IN  IF newData < s.Head
        THEN [ok |-> FALSE, skb |-> s, heap |-> h]
        ELSE [ok |-> TRUE,
              skb |-> [s EXCEPT !.Data = newData,
                                !.Layers = [arr |-> Len(h2), off |-> 0,
                                            len |-> s.Layers.len + 1]],
              heap |-> h2]

Push(h, s, protocol, size) ==
    LET newData == s.Data - size
        header == [Protocol |-> protocol, Offset |-> 0, Size |-> size]
        h1 == AddToOffsets(h, s.Layers, size)
        h2 == Append(h1, <<header>> \o LayersOf(h1, s.Layers))
    IN  IF newData < s.Head
        THEN [ok |-> FALSE, skb |-> s, heap |-> h]
        ELSE [ok |-> TRUE,
              skb |-> [s EXCEPT !.Data = newData,
                                !.Layers = [arr |-> Len(h2), off |-> 0,
                                            len |-> s.Layers.len + 1]],
              heap |-> h2]

PullKeepLayers(h, s, size) ==
    LET newData == s.Data + size
    IN  IF newData > s.Tail
        THEN [ok |-> FALSE, skb |-> s, heap |-> h]
        ELSE [ok |-> TRUE, skb |-> [s EXCEPT !.Data = newData], heap |-> h]

PullFromTail(h, s, size) ==
    LET newData == s.Data + size
        rest == [arr |-> s.Layers.arr, off |-> s.Layers.off + 1,
                 len |-> s.Layers.len - 1]
    IN  IF newData > s.Tail
        THEN [ok |-> FALSE, skb |-> s, heap |-> h]
        ELSE IF s.Layers.len > 0
             THEN [ok |-> TRUE,
                   skb |-> [s EXCEPT !.Data = newData, !.Tail = @ - size,
                                     !.Layers = rest],
                   heap |-> AddToOffsets(h, rest, 0 - size)]
             ELSE [ok |-> TRUE,
                   skb |-> [s EXCEPT !.Data = newData, !.Tail = @ - size],
                   heap |-> h]

PullKeepOffsets(h, s, size) ==
    LET newData == s.Data + size
        rest == [arr |-> s.Layers.arr, off |-> s.Layers.off + 1,
                 len |-> s.Layers.len - 1]
    IN  IF newData > s.Tail
        THEN [ok |-> FALSE, skb |-> s, heap |-> h]
        ELSE IF s.Layers.len > 0
             THEN [ok |-> TRUE,
                   skb |-> [s EXCEPT !.Data = newData, !.Layers = rest],
                   heap |-> h]
             ELSE [ok |-> TRUE, skb |-> [s EXCEPT !.Data = newData], heap |-> h]

Pull(h, s, size) ==
    LET newData == s.Data + size
        rest == [arr |-> s.Layers.arr, off |-> s.Layers.off + 1,
                 len |-> s.Layers.len - 1]
    IN  IF newData > s.Tail
        THEN [ok |-> FALSE, skb |-> s, heap |-> h]
        ELSE IF s.Layers.len > 0
             THEN [ok |-> TRUE,
                   skb |-> [s EXCEPT !.Data = newData, !.Layers = rest],
                   heap |-> AddToOffsets(h, rest, 0 - size)]
             ELSE [ok |-> TRUE, skb |-> [s EXCEPT !.Data = newData], heap |-> h]

PutStoreFirst(h, s, size) ==
    LET newTail == s.Tail + size
    IN  IF newTail > s.End
        THEN [ok |-> FALSE, skb |-> [s EXCEPT !.Tail = newTail], heap |-> h]
        ELSE [ok |-> TRUE, skb |-> [s EXCEPT !.Tail = newTail], heap |-> h]

Put(h, s, size) ==
    LET newTail == s.Tail + size
    IN  IF newTail > s.End
        THEN [ok |-> FALSE, skb |-> s, heap |-> h]
        ELSE [ok |-> TRUE, skb |-> [s EXCEPT !.Tail = newTail], heap |-> h]

Headroom(s) == s.Data - s.Head

Tailroom(s) == s.End - s.Tail

SKBLen(s) == s.Tail - s.Data

CloneShared(h, s) == [skb |-> s, heap |-> h]

Clone(h, s) ==
    LET h1 == Append(h, LayersOf(h, s.Layers))
    IN  [skb |-> [Head |-> s.Head, Data |-> s.Data, Tail |-> s.Tail, End |-> s.End,
                  Layers |-> [arr |-> Len(h1), off |-> 0, len |-> s.Layers.len]],
         heap |-> h1]

-----------------------------------------------------------------------------
(* A driver that constructs one buffer and calls Push, Pull and Put on it *)

NoPath == [Functions |-> <<>>, Edges |-> <<>>, EntryPoint |-> ""]

NoGraph == [functions |-> <<>>, adjacency |-> <<>>]

SimIdle ==
    /\ path = NoPath
    /\ graph = NoGraph
    /\ steps = <<>>
    /\ currentID = ""
    /\ stepNum = 0
    /\ visited = {}
    /\ results = <<>>

InitBuf ==
    /\ HookIdle
    /\ LayerIdle
    /\ \E kind \in {"payload", "ingress"}, totalSize \in BufSizes,
          payloadSize \in PayloadSizes :
          LET r == IF kind = "payload"
                   THEN NewSKBuffWithPayload(<<>>, totalSize, payloadSize)
                   ELSE NewSKBuffForIngress(<<>>, totalSize, payloadSize)
          IN  /\ skb = r.skb
              /\ heap = r.heap
              /\ views = <<View(r.heap, r.skb)>>
              /\ ctor = [kind |-> kind, totalSize |-> totalSize,
                         payloadSize |-> payloadSize]
    /\ hist = <<>>
    /\ pc = "driver"
    /\ SimIdle

Called(r, call) ==
    /\ views' = Append(views, View(r.heap, r.skb))
    /\ skb' = r.skb
    /\ heap' = r.heap
    /\ hist' = Append(hist, [call EXCEPT !.ok = r.ok])
    /\ UNCHANGED <<otherVars, ctor, pc>>
    /\ UNCHANGED simVars

CallPush ==
    /\ pc = "driver"
    /\ Len(hist) < MaxOps
    /\ \E protocol \in Protocols, size \in OpSizes :
          Called(Push(heap, skb, protocol, size),
                 [op |-> "push", protocol |-> protocol, size |-> size, ok |-> FALSE])

CallPull ==
    /\ pc = "driver"
    /\ Len(hist) < MaxOps
    /\ \E size \in OpSizes :
          Called(Pull(heap, skb, size),
                 [op |-> "pull", protocol |-> "", size |-> size, ok |-> FALSE])

CallPut ==
    /\ pc = "driver"
    /\ Len(hist) < MaxOps
    /\ \E size \in OpSizes :
          Called(Put(heap, skb, size),
                 [op |-> "put", protocol |-> "", size |-> size, ok |-> FALSE])

NextBuf == CallPush \/ CallPull \/ CallPut

SpecBuf == InitBuf /\ [][NextBuf]_vars

-----------------------------------------------------------------------------
(* Inputs of the simulation *)

\* number of entries of path.Functions
MaxFunctions == 2

\* number of entries of path.Edges
MaxEdges == 2

\* number of simulations run on one path
MaxRuns == 2

\* function ids used in paths
FuncIDs == {"a", "b"}

\* entry points tried, among them the empty id; paths that start at "b" are the
\* paths that start at "a" with the two ids exchanged
EntryPoints == {"", "a"}

\* Order values used on edges
Orders == {1, 2}

\* (initialBufferSize, payloadSize) arguments tried: the defaults, a buffer the
\* payload fills completely, and a packet without payload
SimSizes == {<<2048, 1000>>, <<1000, 1000>>, <<2048, 0>>}

\* a *SKBMutation is a sequence of length 0 (nil) or 1
Mutations ==
    { <<>>,
      <<[Operation |-> "push", HeaderType |-> "tcp", Size |-> TCPHeaderSize]>>,
      <<[Operation |-> "pull", HeaderType |-> "ethernet", Size |-> EthernetHeaderSize]>>,
      <<[Operation |-> "put", HeaderType |-> "", Size |-> EthernetHeaderSize]>>,
      <<[Operation |-> "alloc", HeaderType |-> "", Size |-> 2048]>> }

KernelFunctions == [ID : FuncIDs, SKBMutation : Mutations]

\* the edges tried; an error-path edge is tried with one Order value only
FunctionEdges ==
    {e \in [From : FuncIDs, To : FuncIDs, IsErrorPath : BOOLEAN, Order : Orders] :
        e.IsErrorPath => e.Order = 1}

SeqsUpTo(S, n) == UNION {[1..k -> S] : k \in 0..n}

PacketPaths ==
    [Functions : SeqsUpTo(KernelFunctions, MaxFunctions),
     Edges : SeqsUpTo(FunctionEdges, MaxEdges),
     EntryPoint : EntryPoints]

-----------------------------------------------------------------------------
(* FunctionGraph *)

\* functions maps an id to the index of its entry in p.Functions (the pointer
\* &path.Functions[i]; a later entry with the same id replaces an earlier one);
\* adjacency maps an id to the edges leaving it, in the order of p.Edges
NewFunctionGraph(p) ==
    [functions |->
        [id \in {p.Functions[i].ID : i \in 1..Len(p.Functions)} |->
            CHOOSE i \in 1..Len(p.Functions) :
                /\ p.Functions[i].ID = id
                /\ \A j \in 1..Len(p.Functions) : p.Functions[j].ID = id => j <= i],
     adjacency |->
        [id \in {p.Edges[i].From : i \in 1..Len(p.Edges)} |->
            SelectSeq(p.Edges, LAMBDA e : e.From = id)]]

GetFunctionFallback(g, id) ==
    IF id \in DOMAIN g.functions THEN g.functions[id]
    ELSE IF DOMAIN g.functions = {} THEN 0
    ELSE g.functions[CHOOSE x \in DOMAIN g.functions : TRUE]

\* index into p.Functions, 0 for nil
GetFunction(g, id) == IF id \in DOMAIN g.functions THEN g.functions[id] ELSE 0

GetOutgoingEdges(g, id) == IF id \in DOMAIN g.adjacency THEN g.adjacency[id] ELSE <<>>

-----------------------------------------------------------------------------
(* PacketPath.Simulate and PacketPath.SimulateIngress *)

ConntrackEstablished == "ESTABLISHED"

\* visited := make(map[string]bool)
NewVisitedShared == visited

NewVisited == {}

\* visited[currentID] = true
MarkVisitedSkip(v, id) == v

MarkVisited(v, id) == v \cup {id}

ApplyMutationAllocResets(h, s, fn) ==
    IF fn.SKBMutation = <<>> THEN [skb |-> s, heap |-> h]
    ELSE LET m == fn.SKBMutation[1]
         IN  CASE m.Operation = "push" ->
                    [skb |-> Push(h, s, m.HeaderType, m.Size).skb,
                     heap |-> Push(h, s, m.HeaderType, m.Size).heap]
               [] m.Operation = "pull" ->
                    [skb |-> Pull(h, s, m.Size).skb, heap |-> Pull(h, s, m.Size).heap]
               [] m.Operation = "put" ->
                    [skb |-> Put(h, s, m.Size).skb, heap |-> Put(h, s, m.Size).heap]
               [] OTHER -> NewSKBuffWithPayload(h, m.Size, 0)

\* the switch on fn.SKBMutation.Operation; the results of Push, Pull, Put are dropped
ApplyMutation(h, s, fn) ==
    IF fn.SKBMutation = <<>> THEN [skb |-> s, heap |-> h]
    ELSE LET m == fn.SKBMutation[1]
             r == CASE m.Operation = "push" -> Push(h, s, m.HeaderType, m.Size)
                    [] m.Operation = "pull" -> Pull(h, s, m.Size)
                    [] m.Operation = "put" -> Put(h, s, m.Size)
                    [] OTHER -> [ok |-> TRUE, skb |-> s, heap |-> h]
         IN  [skb |-> r.skb, heap |-> r.heap]

SelectNextAnyEdge(edges) == IF edges = <<>> THEN "" ELSE edges[1].To

\* the edge loop of Simulate: the target of the first edge that is not an error path
SelectNextLowestOrder(edges) ==
    LET ok == {i \in 1..Len(edges) : ~edges[i].IsErrorPath}
    IN  IF ok = {} THEN ""
        ELSE edges[CHOOSE i \in ok :
                      \A j \in ok : edges[i].Order < edges[j].Order
                                    \/ (edges[i].Order = edges[j].Order /\ i <= j)].To

SelectNext(edges) ==
    LET ok == {i \in 1..Len(edges) : ~edges[i].IsErrorPath}
    IN  IF ok = {} THEN ""
        ELSE edges[CHOOSE i \in ok : \A j \in ok : i <= j].To

\* the same loop in SimulateIngress
SelectNextIngressLast(edges) ==
    LET ok == {i \in 1..Len(edges) : ~edges[i].IsErrorPath}
    IN  IF ok = {} THEN ""
        ELSE edges[CHOOSE i \in ok : \A j \in ok : i >= j].To

SelectNextIngress(edges) ==
    LET ok == {i \in 1..Len(edges) : ~edges[i].IsErrorPath}
    IN  IF ok = {} THEN ""
        ELSE edges[CHOOSE i \in ok : \A j \in ok : i <= j].To

\* the two paths of the catalog, reduced to what the simulation reads: the id and
\* the mutation of every function, the edges, the entry point
BuildTCPIPv4EgressPath ==
    [Functions |-> <<
        [ID |-> "tcp_sendmsg", SKBMutation |-> <<>>],
        [ID |-> "tcp_sendmsg_locked",
         SKBMutation |-> <<[Operation |-> "alloc", HeaderType |-> "", Size |-> 2048]>>],
        [ID |-> "tcp_push", SKBMutation |-> <<>>],
        [ID |-> "__tcp_push_pending_frames", SKBMutation |-> <<>>],
        [ID |-> "tcp_write_xmit", SKBMutation |-> <<>>],
        [ID |-> "__tcp_transmit_skb",
         SKBMutation |-> <<[Operation |-> "push", HeaderType |-> "tcp", Size |-> TCPHeaderSize]>>],
        [ID |-> "ip_queue_xmit",
         SKBMutation |-> <<[Operation |-> "push", HeaderType |-> "ip", Size |-> IPv4HeaderSize]>>],
        [ID |-> "ip_local_out", SKBMutation |-> <<>>],
        [ID |-> "__ip_local_out", SKBMutation |-> <<>>],
        [ID |-> "ip_output", SKBMutation |-> <<>>],
        [ID |-> "ip_finish_output", SKBMutation |-> <<>>],
        [ID |-> "__ip_finish_output", SKBMutation |-> <<>>],
        [ID |-> "ip_finish_output2", SKBMutation |-> <<>>],
        [ID |-> "neigh_output", SKBMutation |-> <<>>],
        [ID |-> "neigh_hh_output",
         SKBMutation |-> <<[Operation |-> "push", HeaderType |-> "ethernet", Size |-> EthernetHeaderSize]>>],
        [ID |-> "dev_queue_xmit", SKBMutation |-> <<>>],
        [ID |-> "__dev_queue_xmit", SKBMutation |-> <<>>],
        [ID |-> "__dev_xmit_skb", SKBMutation |-> <<>>],
        [ID |-> "sch_direct_xmit", SKBMutation |-> <<>>],
        [ID |-> "dev_hard_start_xmit", SKBMutation |-> <<>>],
        [ID |-> "ndo_start_xmit", SKBMutation |-> <<>>] >>,
     Edges |-> <<
        [From |-> "tcp_sendmsg", To |-> "tcp_sendmsg_locked",
         IsErrorPath |-> FALSE, Order |-> 1],
        [From |-> "tcp_sendmsg_locked", To |-> "tcp_push", IsErrorPath |-> FALSE, Order |-> 1],
        [From |-> "tcp_push", To |-> "__tcp_push_pending_frames",
         IsErrorPath |-> FALSE, Order |-> 1],
        [From |-> "__tcp_push_pending_frames", To |-> "tcp_write_xmit",
         IsErrorPath |-> FALSE, Order |-> 1],
        [From |-> "tcp_write_xmit", To |-> "__tcp_transmit_skb",
         IsErrorPath |-> FALSE, Order |-> 1],
        [From |-> "__tcp_transmit_skb", To |-> "ip_queue_xmit",
         IsErrorPath |-> FALSE, Order |-> 1],
        [From |-> "ip_queue_xmit", To |-> "ip_local_out", IsErrorPath |-> FALSE, Order |-> 1],
        [From |-> "ip_local_out", To |-> "__ip_local_out", IsErrorPath |-> FALSE, Order |-> 1],
        [From |-> "__ip_local_out", To |-> "ip_output", IsErrorPath |-> FALSE, Order |-> 1],
        [From |-> "ip_output", To |-> "ip_finish_output", IsErrorPath |-> FALSE, Order |-> 1],
        [From |-> "ip_finish_output", To |-> "__ip_finish_output",
         IsErrorPath |-> FALSE, Order |-> 1],
        [From |-> "__ip_finish_output", To |-> "ip_finish_output2",
         IsErrorPath |-> FALSE, Order |-> 1],
        [From |-> "ip_finish_output2", To |-> "neigh_output",
         IsErrorPath |-> FALSE, Order |-> 1],
        [From |-> "neigh_output", To |-> "neigh_hh_output",
         IsErrorPath |-> FALSE, Order |-> 1],
        [From |-> "neigh_hh_output", To |-> "dev_queue_xmit",
         IsErrorPath |-> FALSE, Order |-> 1],
        [From |-> "dev_queue_xmit", To |-> "__dev_queue_xmit",
         IsErrorPath |-> FALSE, Order |-> 1],
        [From |-> "__dev_queue_xmit", To |-> "__dev_xmit_skb",
         IsErrorPath |-> FALSE, Order |-> 1],
        [From |-> "__dev_xmit_skb", To |-> "sch_direct_xmit",
         IsErrorPath |-> FALSE, Order |-> 1],
        [From |-> "sch_direct_xmit", To |-> "dev_hard_start_xmit",
         IsErrorPath |-> FALSE, Order |-> 1],
        [From |-> "dev_hard_start_xmit", To |-> "ndo_start_xmit",
         IsErrorPath |-> FALSE, Order |-> 1] >>,
     EntryPoint |-> "tcp_sendmsg"]

BuildTCPIPv4IngressPath ==
    [Functions |-> <<
        [ID |-> "napi_poll", SKBMutation |-> <<>>],
        [ID |-> "napi_gro_receive", SKBMutation |-> <<>>],
        [ID |-> "napi_skb_finish", SKBMutation |-> <<>>],
        [ID |-> "netif_receive_skb", SKBMutation |-> <<>>],
        [ID |-> "netif_receive_skb_internal", SKBMutation |-> <<>>],
        [ID |-> "__netif_receive_skb", SKBMutation |-> <<>>],
        [ID |-> "__netif_receive_skb_one_core", SKBMutation |-> <<>>],
        [ID |-> "__netif_receive_skb_core",
         SKBMutation |-> <<[Operation |-> "pull", HeaderType |-> "ethernet", Size |-> EthernetHeaderSize]>>],
        [ID |-> "deliver_skb", SKBMutation |-> <<>>],
        [ID |-> "ip_rcv", SKBMutation |-> <<>>],
        [ID |-> "ip_rcv_finish",
         SKBMutation |-> <<[Operation |-> "pull", HeaderType |-> "ip", Size |-> IPv4HeaderSize]>>],
        [ID |-> "ip_local_deliver", SKBMutation |-> <<>>],
        [ID |-> "ip_local_deliver_finish", SKBMutation |-> <<>>],
        [ID |-> "ip_protocol_deliver_rcu", SKBMutation |-> <<>>],
        [ID |-> "tcp_v4_rcv", SKBMutation |-> <<>>],
        [ID |-> "tcp_v4_do_rcv",
         SKBMutation |-> <<[Operation |-> "pull", HeaderType |-> "tcp", Size |-> TCPHeaderSize]>>],
        [ID |-> "tcp_rcv_established", SKBMutation |-> <<>>],
        [ID |-> "tcp_data_queue", SKBMutation |-> <<>>],
        [ID |-> "tcp_queue_rcv", SKBMutation |-> <<>>],
        [ID |-> "sk_data_ready", SKBMutation |-> <<>>] >>,
     Edges |-> <<
        [From |-> "napi_poll", To |-> "napi_gro_receive", IsErrorPath |-> FALSE, Order |-> 1],
        [From |-> "napi_gro_receive", To |-> "napi_skb_finish",
         IsErrorPath |-> FALSE, Order |-> 1],
        [From |-> "napi_skb_finish", To |-> "netif_receive_skb",
         IsErrorPath |-> FALSE, Order |-> 1],
        [From |-> "netif_receive_skb", To |-> "netif_receive_skb_internal",
         IsErrorPath |-> FALSE, Order |-> 1],
        [From |-> "netif_receive_skb_internal", To |-> "__netif_receive_skb",
         IsErrorPath |-> FALSE, Order |-> 1],
        [From |-> "__netif_receive_skb", To |-> "__netif_receive_skb_one_core",
         IsErrorPath |-> FALSE, Order |-> 1],
        [From |-> "__netif_receive_skb_one_core", To |-> "__netif_receive_skb_core",
         IsErrorPath |-> FALSE, Order |-> 1],
        [From |-> "__netif_receive_skb_core", To |-> "deliver_skb",
         IsErrorPath |-> FALSE, Order |-> 1],
        [From |-> "deliver_skb", To |-> "ip_rcv", IsErrorPath |-> FALSE, Order |-> 1],
        [From |-> "ip_rcv", To |-> "ip_rcv_finish", IsErrorPath |-> FALSE, Order |-> 1],
        [From |-> "ip_rcv_finish", To |-> "ip_local_deliver",
         IsErrorPath |-> FALSE, Order |-> 1],
        [From |-> "ip_local_deliver", To |-> "ip_local_deliver_finish",
         IsErrorPath |-> FALSE, Order |-> 1],
        [From |-> "ip_local_deliver_finish", To |-> "ip_protocol_deliver_rcu",
         IsErrorPath |-> FALSE, Order |-> 1],
        [From |-> "ip_protocol_deliver_rcu", To |-> "tcp_v4_rcv",
         IsErrorPath |-> FALSE, Order |-> 1],
        [From |-> "tcp_v4_rcv", To |-> "tcp_v4_do_rcv", IsErrorPath |-> FALSE, Order |-> 1],
        [From |-> "tcp_v4_do_rcv", To |-> "tcp_rcv_established",
         IsErrorPath |-> FALSE, Order |-> 1],
        [From |-> "tcp_rcv_established", To |-> "tcp_data_queue",
         IsErrorPath |-> FALSE, Order |-> 1],
        [From |-> "tcp_data_queue", To |-> "tcp_queue_rcv",
         IsErrorPath |-> FALSE, Order |-> 1],
        [From |-> "tcp_queue_rcv", To |-> "sk_data_ready",
         IsErrorPath |-> FALSE, Order |-> 1] >>,
     EntryPoint |-> "napi_poll"]

BuiltinPaths == {BuildTCPIPv4EgressPath, BuildTCPIPv4IngressPath}

NoBuffer == [Head |-> 0, Data |-> 0, Tail |-> 0, End |-> 0, Layers |-> EmptySlice]

NoCtor == [kind |-> "", totalSize |-> 0, payloadSize |-> 0]

InitSim ==
    /\ HookIdle
    /\ LayerIdle
    /\ path \in PacketPaths \cup BuiltinPaths
    /\ graph = NoGraph
    /\ steps = <<>>
    /\ currentID = ""
    /\ stepNum = 0
    /\ visited = {}
    /\ results = <<>>
    /\ skb = NoBuffer
    /\ heap = <<>>
    /\ ctor = NoCtor
    /\ hist = <<>>
    /\ views = <<>>
    /\ pc = "idle"

StartedPruningErrorEdges(kind, r, totalSize, payloadSize) ==
    /\ path' = [path EXCEPT !.Edges = SelectSeq(@, LAMBDA e : ~e.IsErrorPath)]
    /\ graph' = NewFunctionGraph(path')
    /\ steps' = <<>>
    /\ skb' = r.skb
    /\ heap' = r.heap
    /\ currentID' = path.EntryPoint
    /\ stepNum' = 1
    /\ visited' = NewVisited
    /\ ctor' = [kind |-> kind, totalSize |-> totalSize, payloadSize |-> payloadSize]
    /\ pc' = "loop"
    /\ UNCHANGED <<otherVars, results, hist, views>>

StartedFromZero(kind, r, totalSize, payloadSize) ==
    /\ graph' = NewFunctionGraph(path)
    /\ steps' = <<>>
    /\ skb' = r.skb
    /\ heap' = r.heap
    /\ currentID' = path.EntryPoint
    /\ stepNum' = 0
    /\ visited' = NewVisited
    /\ ctor' = [kind |-> kind, totalSize |-> totalSize, payloadSize |-> payloadSize]
    /\ pc' = "loop"
    /\ UNCHANGED <<otherVars, path, results, hist, views>>

\* lines 125-138 of Simulate and 186-199 of SimulateIngress
Started(kind, r, totalSize, payloadSize) ==
    /\ graph' = NewFunctionGraph(path)
    /\ steps' = <<>>
    /\ skb' = r.skb
    /\ heap' = r.heap
    /\ currentID' = path.EntryPoint
    /\ stepNum' = 1
    /\ visited' = NewVisited
    /\ ctor' = [kind |-> kind, totalSize |-> totalSize, payloadSize |-> payloadSize]
    /\ pc' = "loop"
    /\ UNCHANGED <<otherVars, path, results, hist, views>>

StartSimulate ==
    /\ pc = "idle"
    /\ Len(results) < MaxRuns
    /\ \E sz \in SimSizes :
          Started("payload", NewSKBuffWithPayload(heap, sz[1], sz[2]), sz[1], sz[2])

StartSimulateIngress ==
    /\ pc = "idle"
    /\ Len(results) < MaxRuns
    /\ \E sz \in SimSizes :
          Started("ingress", NewSKBuffForIngress(heap, sz[1], sz[2]), sz[1], sz[2])

LoopConditionOneStep == currentID # "" /\ currentID \notin visited /\ steps = <<>>

LoopCondition == currentID # "" /\ currentID \notin visited

VisitCloneFirst(next) ==
    LET fn == path.Functions[GetFunction(graph, currentID)]
        c == Clone(heap, skb)
        m == ApplyMutation(c.heap, skb, fn)
        step == [StepNumber |-> stepNum,
                 Function |-> fn,
                 SKBuffState |-> c.skb,
                 EdgeTaken |-> <<>>,
                 ConntrackState |-> ConntrackEstablished]
    IN  /\ visited' = MarkVisited(visited, currentID)
        /\ skb' = m.skb
        /\ heap' = m.heap
        /\ steps' = Append(steps, step)
        /\ stepNum' = stepNum + 1
        /\ currentID' = next
        /\ UNCHANGED <<otherVars, path, graph, results, ctor, hist, views, pc>>

\* one iteration of the for loop that reaches the end of its body
Visit(next) ==
    LET fn == path.Functions[GetFunction(graph, currentID)]
        m == ApplyMutation(heap, skb, fn)
        c == Clone(m.heap, m.skb)
        step == [StepNumber |-> stepNum,
                 Function |-> fn,
                 SKBuffState |-> c.skb,
                 EdgeTaken |-> <<>>,
                 ConntrackState |-> ConntrackEstablished]
    IN  /\ visited' = MarkVisited(visited, currentID)
        /\ skb' = m.skb
        /\ heap' = c.heap
        /\ steps' = Append(steps, step)
        /\ stepNum' = stepNum + 1
        /\ currentID' = next
        /\ UNCHANGED <<otherVars, path, graph, results, ctor, hist, views, pc>>

SimulateLoop ==
    /\ pc = "loop"
    /\ ctor.kind = "payload"
    /\ LoopCondition
    /\ GetFunction(graph, currentID) # 0
    /\ Visit(SelectNext(GetOutgoingEdges(graph, currentID)))

SimulateIngressLoop ==
    /\ pc = "loop"
    /\ ctor.kind = "ingress"
    /\ LoopCondition
    /\ GetFunction(graph, currentID) # 0
    /\ Visit(SelectNextIngress(GetOutgoingEdges(graph, currentID)))

\* fn == nil: the id is marked visited and the loop is left by break
LoopBreak ==
    /\ pc = "loop"
    /\ LoopCondition
    /\ GetFunction(graph, currentID) = 0
    /\ visited' = MarkVisited(visited, currentID)
    /\ pc' = "return"
    /\ UNCHANGED <<otherVars, skb, heap, ctor, hist, views, path, graph, steps, currentID,
                   stepNum, results>>

\* return steps: the caller keeps the returned slice
Return ==
    /\ \/ pc = "return"
       \/ pc = "loop" /\ ~LoopCondition
    /\ results' = Append(results, [kind |-> ctor.kind, totalSize |-> ctor.totalSize,
                                    payloadSize |-> ctor.payloadSize, steps |-> steps])
    /\ steps' = <<>>
    /\ pc' = "idle"
    /\ UNCHANGED <<otherVars, skb, heap, ctor, hist, views, path, graph, currentID, stepNum,
                   visited>>

NextSim ==
    \/ StartSimulate
    \/ StartSimulateIngress
    \/ SimulateLoop
    \/ SimulateIngressLoop
    \/ LoopBreak
    \/ Return

SpecSim == InitSim /\ [][NextSim]_vars

-----------------------------------------------------------------------------
(* Properties of the SKBuff operations, checked under SpecBuf *)

\* the buffer value before and after the i-th call of the driver
Pre(i) == views[i]

Post(i) == views[i + 1]

RECURSIVE SumSizes(_)
SumSizes(ls) == IF ls = <<>> THEN 0 ELSE Head(ls).Size + SumSizes(Tail(ls))

ShiftOffsets(ls, delta) ==
    [i \in 1..Len(ls) |-> [ls[i] EXCEPT !.Offset = @ + delta]]

LiveView == View(heap, skb)

\* C1: every buffer reachable from either constructor by Push, Pull and Put calls
\* with any integer arguments has 0 <= Head <= Data <= Tail <= End, hence
\* Headroom() >= 0, Tailroom() >= 0 and Len() >= 0.
C1_PointerOrder ==
    pc = "driver" =>
        /\ 0 <= skb.Head
        /\ skb.Head <= skb.Data
        /\ skb.Data <= skb.Tail
        /\ skb.Tail <= skb.End
        /\ Headroom(skb) >= 0
        /\ Tailroom(skb) >= 0
        /\ SKBLen(skb) >= 0

\* the constructor arguments describe a packet that fits the buffer, and every
\* size passed so far is non-negative
ArgumentsInRange ==
    /\ ctor.payloadSize >= 0
    /\ ctor.kind = "payload" => ctor.payloadSize <= ctor.totalSize
    /\ ctor.kind = "ingress" =>
          EthernetHeaderSize + IPv4HeaderSize + TCPHeaderSize + ctor.payloadSize
              <= ctor.totalSize
    /\ \A i \in 1..Len(hist) : hist[i].size >= 0

\* C2: in every reachable buffer the layer offsets are non-decreasing, the first
\* layer (if any) has Offset 0 and the layer sizes sum to at most Tail - Data.
\* Stated here for the runs whose arguments are all in range, a subset of the
\* runs the claim covers.
C2_LayerLayout ==
    (pc = "driver" /\ ArgumentsInRange) =>
        LET ls == LiveView.Layers
        IN  /\ \A i \in 1..(Len(ls) - 1) : ls[i].Offset <= ls[i + 1].Offset
            /\ ls # <<>> => ls[1].Offset = 0
            /\ SumSizes(ls) <= skb.Tail - skb.Data

\* C3: Push(label, size) succeeds exactly when Data - size >= Head; it then lowers
\* Data by size, puts {label, 0, size} in front of the layers and raises the Offset
\* of every older layer by size, keeping their order, labels and sizes. From
\* data=1048 the pushes tcp/20, ip/20, ethernet/14 give data=994 and the layers
\* [{ethernet,0,14},{ip,14,20},{tcp,34,20}].
C3_PushEffect ==
    pc = "driver" =>
        /\ \A i \in 1..Len(hist) :
              hist[i].op = "push" =>
                  /\ hist[i].ok = (Pre(i).Data - hist[i].size >= Pre(i).Head)
                  /\ hist[i].ok =>
                        Post(i) = [Pre(i) EXCEPT
                            !.Data = @ - hist[i].size,
                            !.Layers = <<[Protocol |-> hist[i].protocol, Offset |-> 0,
                                          Size |-> hist[i].size]>>
                                       \o ShiftOffsets(@, hist[i].size)]
        /\ ( /\ ctor = [kind |-> "payload", totalSize |-> 2048, payloadSize |-> 1000]
             /\ Len(hist) = 3
             /\ hist[1] = [op |-> "push", protocol |-> "tcp", size |-> 20, ok |-> TRUE]
             /\ hist[2] = [op |-> "push", protocol |-> "ip", size |-> 20, ok |-> TRUE]
             /\ hist[3].op = "push" /\ hist[3].protocol = "ethernet"
             /\ hist[3].size = 14 )
           => /\ Pre(1).Data = 1048
              /\ hist[3].ok
              /\ LiveView.Data = 994
              /\ LiveView.Layers =
                    << [Protocol |-> "ethernet", Offset |-> 0, Size |-> 14],
                       [Protocol |-> "ip", Offset |-> 14, Size |-> 20],
                       [Protocol |-> "tcp", Offset |-> 34, Size |-> 20] >>

\* three successful pushes on top of each other, the last of them over two layers
C3_Witness ==
    /\ pc = "driver"
    /\ ctor = [kind |-> "payload", totalSize |-> 2048, payloadSize |-> 1000]
    /\ Len(hist) = 3
    /\ \A i \in 1..3 : hist[i].op = "push" /\ hist[i].ok
    /\ hist[3].protocol = "ethernet" /\ hist[3].size = 14
    /\ Len(LiveView.Layers) = 3
    /\ LiveView.Data = 994

\* C4: Pull(size) succeeds exactly when Data + size <= Tail; it then raises Data by
\* size, drops the first layer if there is one and lowers the Offset of every
\* remaining layer by size. From the ingress layout with data=0, Pull(14) gives
\* data=14 and the layers [{ip,0,20},{tcp,20,20}].
C4_PullEffect ==
    pc = "driver" =>
        /\ \A i \in 1..Len(hist) :
              hist[i].op = "pull" =>
                  /\ hist[i].ok = (Pre(i).Data + hist[i].size <= Pre(i).Tail)
                  /\ hist[i].ok =>
                        Post(i) = [Pre(i) EXCEPT
                            !.Data = @ + hist[i].size,
                            !.Layers = IF @ = <<>> THEN <<>>
                                       ELSE ShiftOffsets(Tail(@), 0 - hist[i].size)]
        /\ ( /\ ctor.kind = "ingress"
             /\ ctor.payloadSize >= 0
             /\ Len(hist) >= 1
             /\ hist[1].op = "pull" /\ hist[1].size = 14 )
           => /\ Pre(1).Data = 0
              /\ Pre(1).Layers =
                    << [Protocol |-> "ethernet", Offset |-> 0, Size |-> 14],
                       [Protocol |-> "ip", Offset |-> 14, Size |-> 20],
                       [Protocol |-> "tcp", Offset |-> 34, Size |-> 20] >>
              /\ hist[1].ok
              /\ Post(1).Data = 14
              /\ Post(1).Layers =
                    << [Protocol |-> "ip", Offset |-> 0, Size |-> 20],
                       [Protocol |-> "tcp", Offset |-> 20, Size |-> 20] >>

\* a successful Pull(14) on the default ingress layout
C4_Witness ==
    /\ pc = "driver"
    /\ ctor = [kind |-> "ingress", totalSize |-> 2048, payloadSize |-> 1000]
    /\ Len(hist) = 1
    /\ hist[1] = [op |-> "pull", protocol |-> "", size |-> 14, ok |-> TRUE]
    /\ Len(LiveView.Layers) = 2
    /\ LiveView.Data = 14

\* C5: a Push, Pull or Put that returns false leaves Head, Data, Tail, End and the
\* layers as they were, and it returns false exactly when Data - size < Head
\* (Push), Data + size > Tail (Pull), Tail + size > End (Put).
C5_FailureLeavesState ==
    pc = "driver" =>
        \A i \in 1..Len(hist) :
            /\ ~hist[i].ok => Post(i) = Pre(i)
            /\ hist[i].op = "push" =>
                  (~hist[i].ok <=> Pre(i).Data - hist[i].size < Pre(i).Head)
            /\ hist[i].op = "pull" =>
                  (~hist[i].ok <=> Pre(i).Data + hist[i].size > Pre(i).Tail)
            /\ hist[i].op = "put" =>
                  (~hist[i].ok <=> Pre(i).Tail + hist[i].size > Pre(i).End)

\* a failed Push, a failed Pull and a failed Put on a buffer that holds layers
C5_Witness ==
    /\ pc = "driver"
    /\ ArgumentsInRange
    /\ Len(hist) = 3
    /\ \A i \in 1..3 : ~hist[i].ok
    /\ {hist[i].op : i \in 1..3} = {"push", "pull", "put"}
    /\ LiveView.Layers # <<>>
    /\ LiveView = Pre(1)

\* C6: whenever Push(L, n) succeeds, the Pull(n) made right after it succeeds and
\* gives back the buffer as it was before the push: Data, the layers with their
\* labels, sizes, offsets and order, and Head, Tail, End.
C6_PushPullRoundTrip ==
    pc = "driver" =>
        \A i \in 1..(Len(hist) - 1) :
            ( /\ hist[i].op = "push" /\ hist[i].ok
              /\ hist[i + 1].op = "pull" /\ hist[i + 1].size = hist[i].size )
            => /\ hist[i + 1].ok
               /\ Post(i + 1) = Pre(i)

-----------------------------------------------------------------------------
(* Properties of the simulation, checked under SpecSim *)

RECURSIVE Flatten(_)
Flatten(rs) == IF rs = <<>> THEN <<>> ELSE Head(rs).steps \o Flatten(Tail(rs))

\* every step emitted so far, by the returned simulations and by the running one
Emitted == Flatten(results) \o steps

\* the step sequences of the returned simulations and of the running one
AllRuns == {results[k].steps : k \in 1..Len(results)} \cup {steps}

\* a step as a reader sees it
StepValue(h, st) == [st EXCEPT !.SKBuffState = View(h, st.SKBuffState)]

StepValues(h, ss) == [i \in 1..Len(ss) |-> StepValue(h, ss[i])]

NodeIDs(ss) == [i \in 1..Len(ss) |-> ss[i].Function.ID]

\* no snapshot shares its layer array with the live buffer or with another snapshot
NoAliasing ==
    /\ \A i \in 1..Len(Emitted) :
          Emitted[i].SKBuffState.Layers.arr # skb.Layers.arr
    /\ \A i, j \in 1..Len(Emitted) :
          i # j => Emitted[i].SKBuffState.Layers.arr # Emitted[j].SKBuffState.Layers.arr

\* every step emitted before this transition reads the same after it
SnapshotsStable ==
    \A i \in 1..Len(Emitted) :
        /\ i <= Len(Emitted')
        /\ StepValue(heap', Emitted'[i]) = StepValue(heap, Emitted[i])

\* C7: the snapshot of an emitted step is independent of the live buffer and of
\* the other snapshots: no later Push, Pull or Put of the run (or of a later run)
\* changes Head, Data, Tail, End or a layer of a step emitted earlier, and the
\* clone taken for a step shares no layer array with the buffer it was taken from.
C7_SnapshotsIndependent == [](NoAliasing) /\ [][SnapshotsStable]_vars

\* the second step's Push or Pull rewrote layer offsets of the live buffer after the
\* first step had been emitted with layers in its snapshot
C7_Witness ==
    /\ Len(steps) = 2
    /\ steps[1].SKBuffState.Layers.len > 0
    /\ steps[2].Function.SKBMutation # <<>>
    /\ steps[2].Function.SKBMutation[1].Operation \in {"push", "pull"}
    /\ View(heap, steps[2].SKBuffState).Data # View(heap, steps[1].SKBuffState).Data
    /\ View(heap, steps[2].SKBuffState).Layers # View(heap, steps[1].SKBuffState).Layers

\* C8: Simulate and SimulateIngress terminate on every path, cycles and self-loops
\* included, and emit at most as many steps as the path has Functions: every pass
\* through the loop adds one id to visited or returns, visited never holds more
\* than one id beyond the defined ones, and the program is never stuck in a run.
C8_TerminatesWithinNodes ==
    /\ [](/\ \A ss \in AllRuns : Len(ss) <= Len(path.Functions)
          /\ Cardinality(visited) <= Len(path.Functions) + 1
          /\ pc # "idle" => ENABLED NextSim)
    /\ [][pc = "loop" =>
            \/ pc' = "idle"
            \/ Cardinality(visited') = Cardinality(visited) + 1]_vars

\* a run over the cycle a -> b -> a has returned with one step per node
C8_Witness ==
    /\ pc = "idle"
    /\ Len(results) >= 1
    /\ Len(path.Functions) = 2
    /\ Len(path.Edges) = 2
    /\ path.Edges[1].From = "a" /\ path.Edges[1].To = "b" /\ ~path.Edges[1].IsErrorPath
    /\ path.Edges[2].From = "b" /\ path.Edges[2].To = "a" /\ ~path.Edges[2].IsErrorPath
    /\ NodeIDs(results[1].steps) = <<"a", "b">>

SameArguments(r1, r2) ==
    /\ r1.kind = r2.kind
    /\ r1.totalSize = r2.totalSize
    /\ r1.payloadSize = r2.payloadSize

\* C9: two runs of Simulate (or of SimulateIngress) on the same path with the same
\* buffer size and payload size return equal step sequences: same length, step
\* numbers, nodes in the same order, and equal snapshots.
C9_Deterministic ==
    \A i, j \in 1..Len(results) :
        SameArguments(results[i], results[j]) =>
            StepValues(heap, results[i].steps) = StepValues(heap, results[j].steps)

\* two returned runs with the same arguments, each with two steps and a buffer
\* that a mutation changed
C9_Witness ==
    /\ Len(results) = 2
    /\ SameArguments(results[1], results[2])
    /\ Len(results[1].steps) = 2
    /\ Len(results[2].steps) = 2
    /\ View(heap, results[2].steps[2].SKBuffState).Layers # <<>>
    /\ View(heap, results[2].steps[2].SKBuffState).Data
          # View(heap, results[2].steps[1].SKBuffState).Data

\* the indices in path.Edges of the edges from id that are not error paths
NonErrorOut(id) ==
    {k \in 1..Len(path.Edges) :
        path.Edges[k].From = id /\ ~path.Edges[k].IsErrorPath}

\* C10 as stated: the node visited after a node with several non-error outgoing
\* edges is the target of the one with the lowest Order among them, wherever
\* the edges stand in the edge list.
C10_LowestOrderTaken ==
    \A ss \in AllRuns : \A i \in 1..(Len(ss) - 1) :
        \E k \in NonErrorOut(ss[i].Function.ID) :
            /\ path.Edges[k].To = ss[i + 1].Function.ID
            /\ \A j \in NonErrorOut(ss[i].Function.ID) :
                  path.Edges[k].Order <= path.Edges[j].Order

\* C10: the node visited after a node is the target of the first of its outgoing
\* edges, in the order of the path's edge list, that is not an error path; no
\* other edge is followed, and the id the run turns to next is that target.
C10_FirstListedTaken ==
    /\ \A ss \in AllRuns : \A i \in 1..(Len(ss) - 1) :
          \E k \in NonErrorOut(ss[i].Function.ID) :
              /\ path.Edges[k].To = ss[i + 1].Function.ID
              /\ \A j \in NonErrorOut(ss[i].Function.ID) : k <= j
    /\ (pc = "loop" /\ steps # <<>>) =>
          LET out == NonErrorOut(steps[Len(steps)].Function.ID)
          IN  /\ out = {} => currentID = ""
              /\ out # {} => \E k \in out : /\ path.Edges[k].To = currentID
                                            /\ \A j \in out : k <= j

\* a node with two non-error edges, the first listed with the higher Order, and
\* the run went on to the target of the first listed
C10_Witness ==
    /\ Len(steps) = 2
    /\ Len(path.Edges) = 2
    /\ path.Edges[1].From = "a" /\ path.Edges[2].From = "a"
    /\ ~path.Edges[1].IsErrorPath /\ ~path.Edges[2].IsErrorPath
    /\ path.Edges[1].Order > path.Edges[2].Order
    /\ path.Edges[1].To = "b" /\ path.Edges[2].To = "a"
    /\ NodeIDs(steps) = <<"a", "b">>

\* C11: the first step of a run has no EdgeTaken, and every later step's EdgeTaken
\* is the edge that was followed from the previous step's node to this step's node.
C11_EdgeTakenRecorded ==
    \A ss \in AllRuns : \A i \in 1..Len(ss) :
        IF i = 1 THEN ss[i].EdgeTaken = <<>>
        ELSE /\ ss[i].EdgeTaken # <<>>
             /\ ss[i].EdgeTaken[1].From = ss[i - 1].Function.ID
             /\ ss[i].EdgeTaken[1].To = ss[i].Function.ID

\* the node of the path that carries an id
Defined(id) == \E i \in 1..Len(path.Functions) : path.Functions[i].ID = id

\* the run is between two passes of its loop
InRun == pc = "loop"

\* C12: no node id occurs in more than one step of a run, and when the edge
\* selected from the current node points to a node already visited, the run
\* returns the steps it has, the current node's step being the last.
C12_NoNodeTwice ==
    /\ [](\A ss \in AllRuns : \A i, j \in 1..Len(ss) :
             i # j => ss[i].Function.ID # ss[j].Function.ID)
    /\ [][(InRun /\ steps # <<>> /\ currentID \in visited) =>
             /\ pc' = "idle"
             /\ Len(results') = Len(results) + 1
             /\ results'[Len(results')].steps = steps]_vars

\* the second node's edge leads back to the first node, which has its step
C12_Witness ==
    /\ InRun
    /\ Len(steps) = 2
    /\ currentID \in visited
    /\ currentID = steps[1].Function.ID
    /\ steps[2].Function.ID # currentID

\* the entry of path.Functions the graph resolves an id to
NodeOf(id) ==
    path.Functions[CHOOSE i \in 1..Len(path.Functions) :
                      /\ path.Functions[i].ID = id
                      /\ \A j \in 1..Len(path.Functions) :
                            path.Functions[j].ID = id => j <= i]

\* the mutation m is a push, pull or put whose precondition fails on the buffer v
FailsOn(v, m) ==
    /\ m # <<>>
    /\ \/ m[1].Operation = "push" /\ v.Data - m[1].Size < v.Head
       \/ m[1].Operation = "pull" /\ v.Data + m[1].Size > v.Tail
       \/ m[1].Operation = "put" /\ v.Tail + m[1].Size > v.End

\* the buffer the running simulation was started with
InitialBuffer ==
    LET r == IF ctor.kind = "payload"
             THEN NewSKBuffWithPayload(<<>>, ctor.totalSize, ctor.payloadSize)
             ELSE NewSKBuffForIngress(<<>>, ctor.totalSize, ctor.payloadSize)
    IN  View(r.heap, r.skb)

\* the snapshot of the last step emitted, the initial buffer when there is none
PreviousSnapshot ==
    IF steps = <<>> THEN InitialBuffer
    ELSE View(heap, steps[Len(steps)].SKBuffState)

\* C13: a node whose Push, Pull or Put fails does not stop the run: its step is
\* emitted with a snapshot equal to the previous step's snapshot (the initial
\* buffer for the first step), the live buffer is unchanged, and the walk goes on
\* to the target of the node's first non-error edge.
C13_FailedMutationContinues ==
    [][(/\ InRun
        /\ LoopCondition
        /\ Defined(currentID)
        /\ FailsOn(LiveView, NodeOf(currentID).SKBMutation)) =>
          /\ pc' = "loop"
          /\ Len(steps') = Len(steps) + 1
          /\ steps'[Len(steps')].Function = NodeOf(currentID)
          /\ View(heap', steps'[Len(steps')].SKBuffState) = PreviousSnapshot
          /\ View(heap', skb') = LiveView
          /\ LET out == NonErrorOut(currentID)
             IN  /\ out = {} => currentID' = ""
                 /\ out # {} => \E k \in out : /\ path.Edges[k].To = currentID'
                                               /\ \A j \in out : k <= j]_vars

\* a returned run whose first node's pull found no data and left Data at Tail,
\* and which went on to a second step; then a run on the same path whose second
\* node's push found too little headroom and whose second snapshot equals the first
C13_Witness ==
    /\ Len(results) = 1
    /\ Len(results[1].steps) = 2
    /\ results[1].steps[1].Function.SKBMutation # <<>>
    /\ results[1].steps[1].Function.SKBMutation[1].Operation = "pull"
    /\ View(heap, results[1].steps[1].SKBuffState).Data
          = View(heap, results[1].steps[1].SKBuffState).Tail
    /\ Len(steps) = 2
    /\ steps[2].Function.SKBMutation # <<>>
    /\ steps[2].Function.SKBMutation[1].Operation = "push"
    /\ FailsOn(View(heap, steps[1].SKBuffState), steps[2].Function.SKBMutation)
    /\ View(heap, steps[2].SKBuffState) = View(heap, steps[1].SKBuffState)
    /\ View(heap, steps[1].SKBuffState) # InitialBuffer

\* C14: when the current id is not the id of a node of the path, the run ends
\* without a step for it and returns the steps it has; a path whose entry point
\* is not defined yields the empty sequence; a run is never left in another way.
C14_UndefinedNodeEndsRun ==
    /\ [][(InRun /\ LoopCondition /\ ~Defined(currentID)) =>
             /\ steps' = steps
             /\ pc' = "return"]_vars
    /\ [][pc = "return" =>
             /\ pc' = "idle"
             /\ Len(results') = Len(results) + 1
             /\ results'[Len(results')].steps = steps]_vars
    /\ [](/\ pc \in {"idle", "loop", "return"}
          /\ ~Defined(path.EntryPoint) =>
                \A k \in 1..Len(results) : results[k].steps = <<>>)

\* the only edge of a leads to b, which is not a node of the path, and the run
\* has returned the step of a alone
C14_Witness ==
    /\ pc = "idle"
    /\ Len(results) >= 1
    /\ Len(path.Edges) = 1
    /\ path.Edges[1].From = "a" /\ path.Edges[1].To = "b"
    /\ ~path.Edges[1].IsErrorPath
    /\ ~Defined("b")
    /\ NodeIDs(results[1].steps) = <<"a">>

\* a simulation has been started and its loop has not been entered yet
AtRunStart == pc = "loop" /\ stepNum = 1 /\ steps = <<>>

\* C15: the buffer NewSKBuffWithPayload(capacity, payload) returns has Head = 0,
\* Data = capacity - payload, Tail = End = capacity and no layers (Data = 1048 and
\* Tail = 2048 for 2048 and 1000), and every run of Simulate starts from it.
C15_EgressInitialBuffer ==
    (AtRunStart /\ ctor.kind = "payload") =>
        /\ LiveView = [Head |-> 0,
                       Data |-> ctor.totalSize - ctor.payloadSize,
                       Tail |-> ctor.totalSize,
                       End |-> ctor.totalSize,
                       Layers |-> <<>>]
        /\ (ctor.totalSize = 2048 /\ ctor.payloadSize = 1000) =>
              LiveView.Data = 1048 /\ LiveView.Tail = 2048

\* a second run of Simulate(2048, 1000) is about to enter its loop
C15_Witness ==
    /\ AtRunStart
    /\ ctor = [kind |-> "payload", totalSize |-> 2048, payloadSize |-> 1000]
    /\ Len(results) = 1
    /\ results[1].steps # <<>>
    /\ LiveView.Data = 1048

\* C16: the buffer NewSKBuffForIngress(capacity, payload) returns has Head = Data
\* = 0, Tail = 54 + payload, End = capacity and the layers ethernet (0, 14),
\* ip (14, 20), tcp (34, 20), and every run of SimulateIngress starts from it.
C16_IngressInitialBuffer ==
    (AtRunStart /\ ctor.kind = "ingress") =>
        LiveView = [Head |-> 0,
                    Data |-> 0,
                    Tail |-> 54 + ctor.payloadSize,
                    End |-> ctor.totalSize,
                    Layers |-> << [Protocol |-> "ethernet", Offset |-> 0, Size |-> 14],
                                  [Protocol |-> "ip", Offset |-> 14, Size |-> 20],
                                  [Protocol |-> "tcp", Offset |-> 34, Size |-> 20] >>]

\* a second run of SimulateIngress(2048, 1000) is about to enter its loop
C16_Witness ==
    /\ AtRunStart
    /\ ctor = [kind |-> "ingress", totalSize |-> 2048, payloadSize |-> 1000]
    /\ Len(results) = 1
    /\ results[1].steps # <<>>
    /\ LiveView.Tail = 1054

\* the returned runs of one entry point of the program on the path, with the
\* default buffer and payload sizes
DefaultRuns(kind) ==
    {k \in 1..Len(results) :
        results[k] = [results[k] EXCEPT !.kind = kind, !.totalSize = 2048,
                                        !.payloadSize = 1000]}

LastSnapshot(ss) == View(heap, ss[Len(ss)].SKBuffState)

\* C17: Simulate(2048, 1000) on the built-in egress path returns exactly 21 steps,
\* one per function of the path in order, from tcp_sendmsg to ndo_start_xmit, and
\* the last snapshot has Data = 994, Tail = 2048 and the layers ethernet (0, 14),
\* ip (14, 20), tcp (34, 20).
C17_EgressTrace ==
    path = BuildTCPIPv4EgressPath =>
        \A k \in DefaultRuns("payload") :
            LET ss == results[k].steps
            IN  /\ Len(ss) = 21
                /\ \A i \in 1..21 : /\ ss[i].StepNumber = i
                                    /\ ss[i].Function = path.Functions[i]
                /\ ss[1].Function.ID = "tcp_sendmsg"
                /\ ss[21].Function.ID = "ndo_start_xmit"
                /\ LastSnapshot(ss).Data = 994
                /\ LastSnapshot(ss).Tail = 2048
                /\ LastSnapshot(ss).Layers =
                      << [Protocol |-> "ethernet", Offset |-> 0, Size |-> 14],
                         [Protocol |-> "ip", Offset |-> 14, Size |-> 20],
                         [Protocol |-> "tcp", Offset |-> 34, Size |-> 20] >>

\* Simulate(2048, 1000) has returned on the built-in egress path
C17_Witness ==
    /\ path = BuildTCPIPv4EgressPath
    /\ pc = "idle"
    /\ DefaultRuns("payload") # {}

\* the protocols of the layers of a step's snapshot, outermost first
Protos(st) ==
    LET ls == View(heap, st.SKBuffState).Layers
    IN  [i \in 1..Len(ls) |-> ls[i].Protocol]

\* C18: SimulateIngress(2048, 1000) on the built-in ingress path returns exactly
\* 20 steps, one per function of the path in order, from napi_poll to
\* sk_data_ready; the layers leave the snapshots one at a time, ethernet first,
\* then ip, then tcp; the last snapshot has Data = 54, Tail = 1054 and no layers.
C18_IngressTrace ==
    path = BuildTCPIPv4IngressPath =>
        \A k \in DefaultRuns("ingress") :
            LET ss == results[k].steps
            IN  /\ Len(ss) = 20
                /\ \A i \in 1..20 : /\ ss[i].StepNumber = i
                                    /\ ss[i].Function = path.Functions[i]
                /\ ss[1].Function.ID = "napi_poll"
                /\ ss[20].Function.ID = "sk_data_ready"
                /\ Protos(ss[1]) = <<"ethernet", "ip", "tcp">>
                /\ \A i \in 1..19 :
                      \/ Protos(ss[i + 1]) = Protos(ss[i])
                      \/ Protos(ss[i]) # <<>> /\ Protos(ss[i + 1]) = Tail(Protos(ss[i]))
                /\ LastSnapshot(ss).Data = 54
                /\ LastSnapshot(ss).Tail = 1054
                /\ LastSnapshot(ss).Layers = <<>>

\* SimulateIngress(2048, 1000) has returned on the built-in ingress path
C18_Witness ==
    /\ path = BuildTCPIPv4IngressPath
    /\ pc = "idle"
    /\ DefaultRuns("ingress") # {}

\* C19: Head and End keep the values the constructor gave them through every
\* Push, Pull and Put; a Push or a Pull leaves Tail as it was; a Put leaves Data
\* and the layers as they were.
C19_FieldsLeftAlone ==
    pc = "driver" =>
        \A i \in 1..Len(hist) :
            /\ Post(i).Head = Pre(1).Head
            /\ Post(i).End = Pre(1).End
            /\ hist[i].op \in {"push", "pull"} => Post(i).Tail = Pre(i).Tail
            /\ hist[i].op = "put" => /\ Post(i).Data = Pre(i).Data
                                     /\ Post(i).Layers = Pre(i).Layers

\* a Push, a Pull and a Put in some order, each of which succeeded and moved its
\* own pointer, on a buffer that has layers
C19_Witness ==
    /\ pc = "driver"
    /\ ArgumentsInRange
    /\ Len(hist) = 3
    /\ \A i \in 1..3 : hist[i].ok /\ hist[i].size > 0
    /\ {hist[i].op : i \in 1..3} = {"push", "pull", "put"}
    /\ LiveView.Layers # <<>>
    /\ LiveView.Tail # Pre(1).Tail

\* the edges that leave a node, as indices into path.Edges
Out(id) == {k \in 1..Len(path.Edges) : path.Edges[k].From = id}

\* C20: an edge with IsErrorPath set is never followed: two consecutive steps are
\* joined by an edge that is not an error path and has only error-path edges of
\* the same node before it in the edge list, and a step whose node has no edge
\* other than error paths is the last step of its run.
C20_ErrorEdgesSkipped ==
    \A ss \in AllRuns : \A i \in 1..Len(ss) :
        LET id == ss[i].Function.ID
        IN  /\ i < Len(ss) =>
                  \E k \in Out(id) :
                      /\ ~path.Edges[k].IsErrorPath
                      /\ path.Edges[k].To = ss[i + 1].Function.ID
                      /\ \A j \in Out(id) : j < k => path.Edges[j].IsErrorPath
            /\ (\A k \in Out(id) : path.Edges[k].IsErrorPath) => i = Len(ss)

\* the error-path edge a -> a is listed before a -> b; the run went from a to b,
\* and b, which has no edges, ended it
C20_Witness ==
    /\ pc = "idle"
    /\ Len(results) >= 1
    /\ Len(path.Edges) = 2
    /\ path.Edges[1] = [From |-> "a", To |-> "a", IsErrorPath |-> TRUE, Order |-> 1]
    /\ path.Edges[2].From = "a" /\ path.Edges[2].To = "b"
    /\ ~path.Edges[2].IsErrorPath
    /\ NodeIDs(results[1].steps) = <<"a", "b">>

\* the target of the edge the walk selects at a node, "" when it selects none
Selected(id) ==
    IF NonErrorOut(id) = {} THEN ""
    ELSE path.Edges[CHOOSE k \in NonErrorOut(id) :
                       \A j \in NonErrorOut(id) : k <= j].To

\* the reasons for which a run may end after the last step of ss
DeadEnd(ss) == NonErrorOut(ss[Len(ss)].Function.ID) = {}

NodeMissing(ss) ==
    /\ ~DeadEnd(ss)
    /\ ~Defined(Selected(ss[Len(ss)].Function.ID))

Revisited(ss) ==
    /\ ~DeadEnd(ss)
    /\ \E i \in 1..Len(ss) : ss[i].Function.ID = Selected(ss[Len(ss)].Function.ID)

RunRecords ==
    {results[k] : k \in 1..Len(results)}
        \cup {[kind |-> ctor.kind, totalSize |-> ctor.totalSize,
               payloadSize |-> ctor.payloadSize, steps |-> steps]}

\* the buffer a run was started with, on a heap of its own
InitialOf(r) ==
    IF r.kind = "payload"
    THEN NewSKBuffWithPayload(<<>>, r.totalSize, r.payloadSize)
    ELSE NewSKBuffForIngress(<<>>, r.totalSize, r.payloadSize)

\* the buffer after the mutations of the first i steps of ss, applied one after
\* the other to the buffer b
RECURSIVE Replay(_, _, _)
Replay(b, ss, i) ==
    IF i = 0 THEN b
    ELSE LET before == Replay(b, ss, i - 1)
         IN  ApplyMutation(before.heap, before.skb, ss[i].Function)

ReplayView(r, i) ==
    LET b == Replay(InitialOf(r), r.steps, i)
    IN  View(b.heap, b.skb)

\* C23: the snapshot of a step is the buffer after the step's own mutation: the
\* snapshot of the i-th step equals the run's initial buffer with the push, pull
\* and put mutations of the first i steps applied in order, a failed one
\* changing nothing.
C23_SnapshotAfterMutation ==
    \A r \in RunRecords : \A i \in 1..Len(r.steps) :
        View(heap, r.steps[i].SKBuffState) = ReplayView(r, i)

\* a run whose first node pushed a layer and whose second node pulled it: the
\* first snapshot already has the tcp layer, the second has lost it
C23_Witness ==
    /\ Len(steps) = 2
    /\ ctor.kind = "payload"
    /\ steps[1].Function.SKBMutation # <<>>
    /\ steps[1].Function.SKBMutation[1].Operation = "push"
    /\ steps[2].Function.SKBMutation # <<>>
    /\ steps[2].Function.SKBMutation[1].Operation = "pull"
    /\ Len(View(heap, steps[1].SKBuffState).Layers) = 1
    /\ View(heap, steps[1].SKBuffState).Data = InitialBuffer.Data - TCPHeaderSize
    /\ View(heap, steps[2].SKBuffState).Layers = <<>>
    /\ View(heap, steps[2].SKBuffState).Data
          = View(heap, steps[1].SKBuffState).Data + EthernetHeaderSize

\* C24: a run never modifies the path it is given: no step of Simulate or
\* SimulateIngress changes the node list, the edge list or the entry point, and
\* the graph every run walks is the graph of that same path.
C24_PathUnchanged ==
    /\ [][path' = path]_vars
    /\ [](pc # "idle" => graph = NewFunctionGraph(path))

\* two runs have returned on a path with an error-path edge and a mutating node,
\* both with the same two nodes
C24_Witness ==
    /\ pc = "idle"
    /\ Len(results) = 2
    /\ Len(path.Edges) = 2
    /\ path.Edges[1].IsErrorPath
    /\ NodeIDs(results[1].steps) = <<"a", "b">>
    /\ NodeIDs(results[2].steps) = <<"a", "b">>
    /\ results[2].steps[1].Function.SKBMutation # <<>>
    /\ View(heap, results[2].steps[2].SKBuffState).Layers # <<>>

\* the snapshot before step i of the run r: that of step i - 1, the initial
\* buffer of the run for the first step
SnapshotBefore(r, i) ==
    IF i = 1 THEN View(InitialOf(r).heap, InitialOf(r).skb)
    ELSE View(heap, r.steps[i - 1].SKBuffState)

\* the node of a step has a mutation descriptor whose operation is not one of
\* the three the simulation applies (the paths tried use "alloc")
OtherOperation(st) ==
    /\ st.Function.SKBMutation # <<>>
    /\ st.Function.SKBMutation[1].Operation \notin {"push", "pull", "put"}

\* C25: a node whose mutation descriptor names an operation other than push,
\* pull and put leaves the buffer untouched: the snapshot of its step equals the
\* snapshot of the step before it (the initial buffer for a first step), as it
\* does for a node that has no mutation descriptor.
C25_OtherOperationsIgnored ==
    \A r \in RunRecords : \A i \in 1..Len(r.steps) :
        (OtherOperation(r.steps[i]) \/ r.steps[i].Function.SKBMutation = <<>>) =>
            View(heap, r.steps[i].SKBuffState) = SnapshotBefore(r, i)

\* the first node pushed a header, the second node is an alloc node, and its
\* snapshot shows the buffer with that header
C25_Witness ==
    /\ Len(steps) = 2
    /\ steps[1].Function.SKBMutation # <<>>
    /\ steps[1].Function.SKBMutation[1].Operation = "push"
    /\ View(heap, steps[1].SKBuffState) # InitialBuffer
    /\ OtherOperation(steps[2])
    /\ steps[2].Function.SKBMutation[1].Operation = "alloc"
    /\ View(heap, steps[2].SKBuffState).Layers # <<>>

StepNumbers(ss) == [i \in 1..Len(ss) |-> ss[i].StepNumber]

\* C26: on one path Simulate and SimulateIngress visit the same nodes in the
\* same order with the same step numbers, whatever the buffer size and the
\* payload size; the steps of two runs differ in their snapshots only.
C26_SameWalk ==
    \A i, j \in 1..Len(results) :
        /\ NodeIDs(results[i].steps) = NodeIDs(results[j].steps)
        /\ StepNumbers(results[i].steps) = StepNumbers(results[j].steps)
        /\ \A k \in 1..Len(results[i].steps) :
              k <= Len(results[j].steps) =>
                 [results[i].steps[k] EXCEPT !.SKBuffState = NoBuffer]
                    = [results[j].steps[k] EXCEPT !.SKBuffState = NoBuffer]

\* Simulate and SimulateIngress have both returned, called with different sizes,
\* on a path where a has two non-error edges, to b and to itself, and where a
\* mutation made the snapshots of the two runs differ
C26_Witness ==
    /\ Len(results) = 2
    /\ results[1].kind # results[2].kind
    /\ results[1].totalSize # results[2].totalSize
    /\ Len(path.Edges) = 2
    /\ path.Edges[1].From = "a" /\ path.Edges[1].To = "b" /\ ~path.Edges[1].IsErrorPath
    /\ path.Edges[2].From = "a" /\ path.Edges[2].To = "a" /\ ~path.Edges[2].IsErrorPath
    /\ NodeIDs(results[1].steps) = <<"a", "b">>
    /\ results[1].steps[2].Function.SKBMutation # <<>>
    /\ View(heap, results[1].steps[2].SKBuffState)
          # View(heap, results[2].steps[2].SKBuffState)

\* payloadSize of the memory-layout diagram: the data length less the layer sizes
DiagramPayloadSize(v) == (v.Tail - v.Data) - SumSizes(v.Layers)

\* the runs the export makes: Simulate on the egress path and SimulateIngress on
\* the ingress path, returned or running, with the default sizes
ExportedRuns ==
    {r \in RunRecords :
        /\ r.totalSize = 2048
        /\ r.payloadSize = 1000
        /\ \/ path = BuildTCPIPv4EgressPath /\ r.kind = "payload"
           \/ path = BuildTCPIPv4IngressPath /\ r.kind = "ingress"}

\* C27: in the simulations of the two built-in paths with buffer 2048 and
\* payload 1000, every snapshot has Tail - Data - (sum of the layer sizes) = 1000:
\* the payload size the diagram shows is the same, and not negative, at every step.
C27_DiagramPayloadConstant ==
    \A r \in ExportedRuns : \A i \in 1..Len(r.steps) :
        DiagramPayloadSize(View(heap, r.steps[i].SKBuffState)) = 1000

\* a simulation the export makes has returned one step per function of its path,
\* among them snapshots with one layer and with two layers
C27_Witness ==
    /\ path \in BuiltinPaths
    /\ Len(results) = 1
    /\ results[1] \in ExportedRuns
    /\ Len(results[1].steps) = Len(path.Functions)
    /\ \E i \in 1..Len(results[1].steps) :
          Len(View(heap, results[1].steps[i].SKBuffState).Layers) = 1
    /\ \E i \in 1..Len(results[1].steps) :
          Len(View(heap, results[1].steps[i].SKBuffState).Layers) = 2

-----------------------------------------------------------------------------
(* useSimulation, the playback hook of the frontend *)

\* longest simulation handed to the hook
MaxSteps == 3

\* the indexes goTo is called with, some of them out of range on either side
GoToIndexes == -1..MaxSteps

\* the buffer and the simulation take no part
BackendIdle ==
    /\ skb = NoBuffer
    /\ heap = <<>>
    /\ ctor = NoCtor
    /\ hist = <<>>
    /\ views = <<>>
    /\ SimIdle

\* the hook is mounted on a simulation of some length, the empty one included;
\* the effect of the first render finds isPlaying false and arms nothing
InitPlay ==
    /\ totalSteps \in 0..MaxSteps
    /\ stepIndex = 0
    /\ isPlaying = FALSE
    /\ intervalArmed = FALSE
    /\ effectPending = FALSE
    /\ lastEvent = NoEvent
    /\ pc = "hook"
    /\ BackendIdle
    /\ LayerIdle

HasNext == stepIndex < totalSteps - 1

HasPrev == stepIndex > 0

\* the interval once the effects of the last commit have run: React runs them
\* before it renders the next update. Cleanup clears the interval, the effect
\* body arms a new one when isPlaying && hasNext
FlushedArmed ==
    IF effectPending THEN isPlaying /\ HasNext ELSE intervalArmed

\* a handler or a timer callback has set the state to (index, playing); the
\* render that follows schedules the effect again when isPlaying or hasNext,
\* two of its dependencies, changed (totalSteps and playSpeed are fixed here)
Commit(index, playing, op, arg) ==
    /\ stepIndex' = index
    /\ isPlaying' = playing
    /\ intervalArmed' = FlushedArmed
    /\ effectPending' = (playing # isPlaying \/ (index < totalSteps - 1) # HasNext)
    /\ lastEvent' = [op |-> op, index |-> arg, from |-> stepIndex]
    /\ UNCHANGED <<totalSteps, pc, skb, heap, ctor, hist, views, simVars, layerVars>>

Step ==
    /\ pc = "hook"
    /\ IF HasNext
       THEN Commit(stepIndex + 1, isPlaying, "step", 0)
       ELSE Commit(stepIndex, FALSE, "step", 0)

Back ==
    /\ pc = "hook"
    /\ IF HasPrev
       THEN Commit(stepIndex - 1, isPlaying, "back", 0)
       ELSE Commit(stepIndex, isPlaying, "back", 0)

Reset ==
    /\ pc = "hook"
    /\ Commit(0, FALSE, "reset", 0)

Play ==
    /\ pc = "hook"
    /\ IF HasNext
       THEN Commit(stepIndex, TRUE, "play", 0)
       ELSE Commit(stepIndex, isPlaying, "play", 0)

Pause ==
    /\ pc = "hook"
    /\ Commit(stepIndex, FALSE, "pause", 0)

\* pause() when playing, play() otherwise
Toggle ==
    /\ pc = "hook"
    /\ IF isPlaying
       THEN Commit(stepIndex, FALSE, "toggle", 0)
       ELSE IF HasNext
            THEN Commit(stepIndex, TRUE, "toggle", 0)
            ELSE Commit(stepIndex, isPlaying, "toggle", 0)

GoToUnchecked ==
    /\ pc = "hook"
    /\ \E index \in GoToIndexes : Commit(index, isPlaying, "goTo", index)

GoTo ==
    /\ pc = "hook"
    /\ \E index \in GoToIndexes :
          IF index >= 0 /\ index < totalSteps
          THEN Commit(index, isPlaying, "goTo", index)
          ELSE Commit(stepIndex, isPlaying, "goTo", index)

\* the interval callback; an interval that the pending effect is about to clear
\* can still fire
Tick ==
    /\ pc = "hook"
    /\ intervalArmed
    /\ IF stepIndex >= totalSteps - 1
       THEN Commit(stepIndex, FALSE, "tick", 0)
       ELSE Commit(stepIndex + 1, isPlaying, "tick", 0)

\* the auto-advance effect: cleanup of the previous run, then the body
RunEffect ==
    /\ pc = "hook"
    /\ effectPending
    /\ intervalArmed' = (isPlaying /\ HasNext)
    /\ effectPending' = FALSE
    /\ UNCHANGED <<stepIndex, isPlaying, totalSteps, lastEvent, pc, skb, heap, ctor,
                   hist, views, simVars, layerVars>>

NextPlay ==
    \/ Step
    \/ Back
    \/ Reset
    \/ Play
    \/ Pause
    \/ Toggle
    \/ GoTo
    \/ Tick
    \/ RunEffect

SpecPlay == InitPlay /\ [][NextPlay]_vars

C29_PlaybackStopsAtEnd ==
    (/\ totalSteps > 0
     /\ lastEvent.op = "tick"
     /\ stepIndex = totalSteps - 1
     /\ ~effectPending) =>
        /\ ~isPlaying
        /\ ~intervalArmed

-----------------------------------------------------------------------------
(* Layer and its JSON form; the marshal, unmarshal, re-marshal pass of the
   contract command *)

LayerUserSpace == 0

LayerSocket == 1

LayerTransport == 2

LayerNetwork == 3

LayerDataLink == 4

LayerDriver == 5

DefinedLayers ==
    {LayerUserSpace, LayerSocket, LayerTransport, LayerNetwork, LayerDataLink,
     LayerDriver}

\* Layer is an int: the values tried are the six defined ones and one that is not
LayerValues == DefinedLayers \cup {6}

\* number of functions in the export
MaxLayerFns == 2

\* length of a JSON text, in tokens
MaxTokens == 3

\* a text is a sequence of tokens; a token is the quote character or a run of
\* characters without a quote
Quote == "\""

Words ==
    {"User Space", "Socket Layer", "Transport Layer", "Network Layer",
     "Data Link Layer", "Device Driver", "Unknown", "layer-driver", "5"}

Texts == SeqsUpTo({Quote} \cup Words, MaxTokens)

LayerCSSClass(l) ==
    CASE l = LayerUserSpace -> "layer-user"
      [] l = LayerSocket -> "layer-socket"
      [] l = LayerTransport -> "layer-transport"
      [] l = LayerNetwork -> "layer-network"
      [] l = LayerDataLink -> "layer-datalink"
      [] l = LayerDriver -> "layer-driver"
      [] OTHER -> "layer-unknown"

\* Layer.String
LayerString(l) ==
    CASE l = LayerUserSpace -> "User Space"
      [] l = LayerSocket -> "Socket Layer"
      [] l = LayerTransport -> "Transport Layer"
      [] l = LayerNetwork -> "Network Layer"
      [] l = LayerDataLink -> "Data Link Layer"
      [] l = LayerDriver -> "Device Driver"
      [] OTHER -> "Unknown"

MarshalJSON(l) == <<Quote, LayerString(l), Quote>>

\* the Layer stored through the receiver and the error returned (always nil)
UnmarshalJSON(data) ==
    LET s == IF Len(data) >= 2 /\ data[1] = Quote /\ data[Len(data)] = Quote
             THEN SubSeq(data, 2, Len(data) - 1)
             ELSE data
        l == CASE s = <<"User Space">> -> LayerUserSpace
               [] s = <<"Socket Layer">> -> LayerSocket
               [] s = <<"Transport Layer">> -> LayerTransport
               [] s = <<"Network Layer">> -> LayerNetwork
               [] s = <<"Data Link Layer">> -> LayerDataLink
               [] s = <<"Device Driver">> -> LayerDriver
               [] OTHER -> LayerUserSpace
    IN  [layer |-> l, err |-> FALSE]

\* the command starts with the functions of an export, each with its Layer
InitLayer ==
    /\ fnLayers \in SeqsUpTo(LayerValues, MaxLayerFns)
    /\ jsonData = <<>>
    /\ decoded = <<>>
    /\ pc = "command"
    /\ BackendIdle
    /\ HookIdle

LayerFrame == UNCHANGED <<skb, heap, ctor, hist, views, simVars, hookVars>>

\* contract.ExportTCPIPv4EgressPath: json.Marshal of the export
Export ==
    /\ pc = "command"
    /\ jsonData' = [i \in 1..Len(fnLayers) |-> MarshalJSON(fnLayers[i])]
    /\ pc' = "exported"
    /\ UNCHANGED <<fnLayers, decoded>>
    /\ LayerFrame

\* json.Unmarshal(data, &export)
Unmarshal ==
    /\ pc = "exported"
    /\ decoded' = [i \in 1..Len(jsonData) |-> UnmarshalJSON(jsonData[i])]
    /\ pc' = "parsed"
    /\ UNCHANGED <<fnLayers, jsonData>>
    /\ LayerFrame

\* UnmarshalJSON called on a text that no MarshalJSON call of the command made
UnmarshalText ==
    /\ pc = "command"
    /\ fnLayers = <<>>
    /\ \E text \in Texts :
          /\ jsonData' = <<text>>
          /\ decoded' = <<UnmarshalJSON(text)>>
    /\ pc' = "parsed"
    /\ UNCHANGED fnLayers
    /\ LayerFrame

\* json.MarshalIndent(export) or json.Marshal(export)
ReMarshal ==
    /\ pc = "parsed"
    /\ jsonData' = [i \in 1..Len(decoded) |-> MarshalJSON(decoded[i].layer)]
    /\ pc' = "written"
    /\ UNCHANGED <<fnLayers, decoded>>
    /\ LayerFrame

NextLayer == Export \/ Unmarshal \/ UnmarshalText \/ ReMarshal

SpecLayer == InitLayer /\ [][NextLayer]_vars

\* a text is the name of a defined layer, in quotes or bare
IsLayerName(text) ==
    \E l \in DefinedLayers :
        \/ text = <<Quote, LayerString(l), Quote>>
        \/ text = <<LayerString(l)>>

\* C30: UnmarshalJSON applied to what MarshalJSON wrote for a defined Layer gives
\* that Layer back, so after the command's marshal, unmarshal and re-marshal every
\* function with a defined layer has the layer and the JSON text it had; a text
\* that is not the name of one of the six layers unmarshals to LayerUserSpace;
\* UnmarshalJSON never returns an error.
C30_LayerRoundTrip ==
    /\ \A i \in 1..Len(decoded) : ~decoded[i].err
    /\ (pc \in {"parsed", "written"} /\ fnLayers # <<>>) =>
          \A i \in 1..Len(fnLayers) :
              fnLayers[i] \in DefinedLayers =>
                 /\ decoded[i].layer = fnLayers[i]
                 /\ pc = "written" => jsonData[i] = <<Quote, LayerString(fnLayers[i]), Quote>>
    /\ (pc = "parsed" /\ fnLayers = <<>> /\ jsonData # <<>>) =>
          (~IsLayerName(jsonData[1]) => decoded[1].layer = LayerUserSpace)

\* the pass has run on an export with a driver-layer and a socket-layer function
C30_Witness ==
    /\ pc = "written"
    /\ fnLayers = <<LayerDriver, LayerSocket>>
    /\ decoded[1].layer = LayerDriver
    /\ decoded[2].layer = LayerSocket
    /\ jsonData[1] = <<Quote, "Device Driver", Quote>>

====
